---- MODULE Spec2Model ----
(***************************************************************************)
(* Model of hyprwatch/shadow: src/src/main.rs (main) and                   *)
(* src/src/osquery.rs (OsqueryProvisioner, get_host_identifier).           *)
(*                                                                         *)
(* One data directory lives across several runs of the program.  A run is  *)
(* one execution of main; it can end by returning, by failing with an      *)
(* error, or by being killed at any point.                                 *)
(***************************************************************************)
EXTENDS Integers, Sequences, FiniteSets, TLC

VARIABLES platform, run, pc, args, fs, net, st, hist

vars == <<platform, run, pc, args, fs, net, st, hist>>

----------------------------------------------------------------------------
(* Bounds *)

MaxRuns == 2
MaxChunks == 2

----------------------------------------------------------------------------
(* Numbers *)

Oct(a, b, c) == a * 64 + b * 8 + c

RECURSIVE BitAnd(_, _)
BitAnd(a, b) ==
    IF a = 0 \/ b = 0 THEN 0
    ELSE (IF a % 2 = 1 /\ b % 2 = 1 THEN 1 ELSE 0) + 2 * BitAnd(a \div 2, b \div 2)

\* perms.mode() & 0o111
ExecMask == 73
\* perms.set_mode(0o755)
Mode755 == 493
\* mode of a file created by File::create / open(O_CREAT, 0o666) under umask 022
CreateMode == Oct(6, 4, 4)

----------------------------------------------------------------------------
(* Strings are sequences of tokens; a token is a run of characters that    *)
(* the patterns of the code never split.                                   *)

ends_with(s, suf) ==
    /\ Len(s) >= Len(suf)
    /\ SubSeq(s, Len(s) - Len(suf) + 1, Len(s)) = suf

----------------------------------------------------------------------------
(* Platforms: the (target_os, target_arch) pair the binary is built for.   *)

Platforms ==
    {"linux_x86_64", "linux_aarch64", "linux_riscv64", "macos_aarch64",
     "windows_x86_64", "windows_aarch64"}

\* cfg(target_os = ...)
target_os(p) ==
    CASE p \in {"linux_x86_64", "linux_aarch64", "linux_riscv64"} -> "linux"
      [] p = "macos_aarch64" -> "macos"
      [] p \in {"windows_x86_64", "windows_aarch64"} -> "windows"

\* cfg(target_arch = ...)
target_arch(p) ==
    CASE p \in {"linux_aarch64", "macos_aarch64", "windows_aarch64"} -> "aarch64"
      [] p = "linux_riscv64" -> "riscv64"
      [] OTHER -> "x86_64"

\* cfg(unix)
IsUnix(p) == target_os(p) # "windows"

\* The bytes of a download are a sequence of chunks; a chunk is one archive
\* member.  The published release artifact is <<1, 2>>.
Chunk == {1, 2, 3}
ReleaseArtifact == <<1, 2>>

\* Sha256 followed by format!("{:x}"): an injective encoding of the bytes.
RECURSIVE Sha256(_)
Sha256(data) ==
    IF data = <<>> THEN 1
    ELSE Sha256(SubSeq(data, 1, Len(data) - 1)) * 4 + data[Len(data)]

get_platform_info(p) ==
    CASE target_os(p) = "linux" /\ target_arch(p) = "x86_64" ->
            [ok |-> TRUE,
             download_filename |-> "osquery-5.20.0_1.linux_x86_64.tar.gz",
             sha256 |-> Sha256(ReleaseArtifact),
             archive_type |-> "TarGz",
             binary_path |-> <<"opt/osquery/bin/", "osqueryd">>]
      [] target_os(p) = "linux" /\ target_arch(p) = "aarch64" ->
            [ok |-> TRUE,
             download_filename |-> "osquery-5.20.0_1.linux_aarch64.tar.gz",
             sha256 |-> Sha256(ReleaseArtifact),
             archive_type |-> "TarGz",
             binary_path |-> <<"opt/osquery/bin/", "osqueryd">>]
      [] target_os(p) = "macos" ->
            [ok |-> TRUE,
             download_filename |-> "osquery-5.20.0.pkg",
             sha256 |-> Sha256(ReleaseArtifact),
             archive_type |-> "Pkg",
             binary_path |-> <<"opt/osquery/lib/osquery.app/Contents/MacOS/", "osqueryd">>]
      [] target_os(p) = "windows" ->
            [ok |-> TRUE,
             download_filename |-> "osquery-5.20.0.windows_x86_64.zip",
             sha256 |-> Sha256(ReleaseArtifact),
             archive_type |-> "Zip",
             binary_path |-> <<"osqueryd/", "osqueryd.exe">>]
      [] OTHER ->
            [ok |-> FALSE,
             download_filename |-> "",
             sha256 |-> 0,
             archive_type |-> "none",
             binary_path |-> <<>>]

osqueryd_path(p) ==
    CASE target_os(p) = "windows" -> "bin/osqueryd.exe"
      [] target_os(p) = "macos" -> "bin/osquery.app/Contents/MacOS/osqueryd"
      [] OTHER -> "bin/osqueryd"

----------------------------------------------------------------------------
(* Archive members.  Member 1 is a file next to the binary whose name only *)
(* contains the binary's name, member 2 is the binary at binary_path,      *)
(* member 3 is another file whose name ends with the binary's name and     *)
(* whose stored mode has no executable bit.                                *)

TarEntry(c) ==
    CASE c = 1 -> [path |-> <<"opt/osquery/share/man/", "osqueryd", ".1">>, mode |-> Oct(6, 4, 4)]
      [] c = 2 -> [path |-> <<"opt/osquery/bin/", "osqueryd">>, mode |-> Oct(7, 5, 5)]
      [] OTHER -> [path |-> <<"usr/local/bin/", "osqueryd">>, mode |-> Oct(6, 4, 4)]

ZipEntry(c) ==
    CASE c = 1 -> [path |-> <<"osqueryd/", "osqueryd.exe", ".manifest">>, mode |-> 0]
      [] c = 2 -> [path |-> <<"osqueryd/", "osqueryd.exe">>, mode |-> 0]
      [] OTHER -> [path |-> <<"tools/", "osqueryd.exe">>, mode |-> 0]

\* Payload of an installer package: member 2 carries osquery.app with its
\* executable, member 3 carries an osquery.app without Contents/MacOS/osqueryd.
PkgHasApp(data) == \E i \in 1..Len(data) : data[i] \in {2, 3}
PkgHasBinary(data) == \E i \in 1..Len(data) : data[i] = 2

\* the name anywhere in the path
tar_match_contains(path, binary_path) ==
    (\E k \in 1..Len(path) : path[k] = "osqueryd") \/ path = binary_path

\* for entry in archive.entries(): the first entry the condition accepts
tar_match(path, binary_path) ==
    ends_with(path, <<"osqueryd">>) \/ path = binary_path

zip_match(name, binary_path) ==
    ends_with(name, <<"osqueryd.exe">>) \/ name = binary_path

FirstMatch(matches) ==
    IF \E i \in 1..Len(matches) : matches[i]
    THEN CHOOSE i \in 1..Len(matches) :
            /\ matches[i]
            /\ \A j \in 1..(i - 1) : ~matches[j]
    ELSE 0

----------------------------------------------------------------------------
(* The data directory *)

NoFile == [exists |-> FALSE, data |-> <<>>]

\* the file at osqueryd_path(): entry is the archive member it was taken
\* from, complete whether all its bytes arrived, verified whether
\* verify_hash accepted the archive before extraction
NoBin == [exists |-> FALSE, complete |-> FALSE, mode |-> 0, entry |-> 0,
          verified |-> FALSE]

EmptyDataDir ==
    [tmpDir |-> FALSE, tmpFile |-> NoFile, binDir |-> FALSE, bin |-> NoBin,
     bundle |-> "absent", pkgExpand |-> "absent", logDir |-> FALSE]

\* the existence test alone
is_provisioned_exists_only(p, f) == f.bin.exists

is_provisioned(p, f) ==
    IF ~f.bin.exists THEN FALSE
    ELSE IF IsUnix(p) THEN BitAnd(f.bin.mode, ExecMask) # 0
    ELSE TRUE

----------------------------------------------------------------------------
(* One run *)

NoResponse == [status |-> 0, body |-> <<>>]

FreshRun ==
    [cached |-> FALSE, prov |-> "none", path |-> "none", verified |-> FALSE,
     failedAt |-> "none", outcome |-> "none", childExit |-> -1,
     nGet |-> 0, nDigest |-> 0, nExtract |-> 0, nChmod |-> 0, nPost |-> 0, nSpawn |-> 0,
     steps |-> <<>>, launched |-> {}, before |-> [bin |-> NoBin, bundle |-> "absent"],
     extractRet |-> "none", checkedBin |-> NoBin,
     getStatus |-> 0, tmpCreated |-> FALSE,
     hostId |-> "none", enrollStatus |-> 0, enrollBody |-> <<>>,
     secret |-> "none", err |-> <<>>]

NoArgs == [skip_verify |-> FALSE, osqueryd_path |-> "none", host_identifier |-> "Uuid"]

\* the stage of the orchestrator a position belongs to
Stage(p) ==
    CASE p \in {"mk_tmp", "dl_send", "dl_chunk"} -> "Downloading"
      [] p = "verify" -> "Verifying"
      [] p \in {"mk_bin", "extract", "tar_copy", "zip_copy", "pkgutil", "pkg_check",
                "pkg_cp"} -> "Extracting"
      [] p \in {"cleanup", "check_bin"} -> "FinalizingPermissions"
      [] p \in {"ensure", "get_platform"} -> "NotChecked"
      [] OTHER -> "main"

Init ==
    /\ platform \in Platforms
    /\ run = 0
    /\ pc = "idle"
    /\ args = NoArgs
    /\ fs = EmptyDataDir
    /\ net = NoResponse
    /\ st = FreshRun
    /\ hist = [everSkipped |-> FALSE, prevEnd |-> "none", okRun |-> 0, okPath |-> "none"]

\* ensure_provisioned returns Ok(path): remember the first run that did
Returned(path) ==
    IF hist.okRun = 0 THEN [hist EXCEPT !.okRun = run, !.okPath = path] ELSE hist

\* the run ends with an error raised at the current position
Fail(why) ==
    /\ pc' = "done"
    /\ st' = [st EXCEPT !.failedAt = why, !.outcome = "fail",
                        !.prov = IF st.prov = "none" /\ args.osqueryd_path = "none"
                                 THEN "err" ELSE st.prov]
    /\ hist' = [hist EXCEPT !.prevEnd = Stage(pc)]
    /\ net' = NoResponse

Artifacts == UNION {[1..n -> Chunk] : n \in 0..MaxChunks}

----------------------------------------------------------------------------
(* main, up to the provisioner *)

\* Args::parse and fs::create_dir_all(&data_dir)
StartRun ==
    /\ pc \in {"idle", "done"}
    /\ run < MaxRuns
    /\ run' = run + 1
    /\ \E skip \in BOOLEAN, path \in {"none", "present", "missing"} :
          /\ args' = [NoArgs EXCEPT !.skip_verify = skip, !.osqueryd_path = path]
          /\ hist' = [hist EXCEPT !.everSkipped = @ \/ skip]
    /\ st' = FreshRun
    /\ net' = NoResponse
    /\ pc' = "main"
    /\ UNCHANGED <<platform, fs>>

\* the provisioner called whatever the option
after_path_match_provision(path) == "ensure"

\* Some(path) => path, None => provisioner.ensure_provisioned()
after_path_match(path) == IF path = "present" THEN "log_dir" ELSE "ensure"

\* let osqueryd_path = match args.osqueryd_path
main_osqueryd_path ==
    /\ pc = "main"
    /\ IF args.osqueryd_path = "missing"
       THEN Fail("user_path") /\ UNCHANGED <<platform, run, args, fs>>
       ELSE /\ pc' = after_path_match(args.osqueryd_path)
            /\ st' = [st EXCEPT !.path = IF args.osqueryd_path = "present"
                                         THEN "user" ELSE @]
            /\ UNCHANGED <<platform, run, args, fs, net, hist>>

----------------------------------------------------------------------------
(* OsqueryProvisioner *)

ensure_provisioned ==
    /\ pc = "ensure"
    /\ IF is_provisioned(platform, fs)
       THEN /\ st' = [st EXCEPT !.cached = TRUE, !.prov = "ok",
                                !.path = osqueryd_path(platform),
                                !.steps = Append(@, "check"),
                                !.checkedBin = fs.bin]
            /\ hist' = Returned(osqueryd_path(platform))
            /\ pc' = "log_dir"
       ELSE /\ st' = [st EXCEPT !.steps = Append(@, "check"),
                                !.checkedBin = fs.bin]
            /\ pc' = "get_platform"
            /\ UNCHANGED hist
    /\ UNCHANGED <<platform, run, args, fs, net>>

\* let platform_info = get_platform_info()?
download_and_extract ==
    /\ pc = "get_platform"
    /\ IF ~get_platform_info(platform).ok
       THEN /\ Fail("platform")
            /\ UNCHANGED <<platform, run, args, fs>>
       ELSE /\ st' = [st EXCEPT !.steps = Append(@, "resolve")]
            /\ pc' = "mk_tmp"
            /\ UNCHANGED <<platform, run, args, fs, net, hist>>

\* fs::create_dir_all(&temp_dir)
create_temp_dir ==
    /\ pc = "mk_tmp"
    /\ fs' = [fs EXCEPT !.tmpDir = TRUE]
    /\ pc' = "dl_send"
    /\ UNCHANGED <<platform, run, args, net, st, hist>>

is_success(status) == status >= 200 /\ status <= 299

\* a failed download tried again
on_download_error_retry == "dl_send"

\* .context("Failed to download osquery")? and the bail on the status: the
\* error leaves download_file, download_and_extract, ensure_provisioned and
\* main
on_download_error == "done"

\* the file made whatever the status
creates_file_always(status) == TRUE

\* whether control reaches File::create(dest): only past the status check
creates_file(status) == is_success(status)

\* client.get(url).send(), the status check and File::create(dest)
download_file ==
    /\ pc = "dl_send"
    /\ \/ /\ pc' = on_download_error
          /\ st' = [st EXCEPT !.failedAt = "download", !.outcome = "fail",
                              !.prov = "err", !.nGet = @ + 1,
                              !.steps = Append(@, "download")]
          /\ hist' = [hist EXCEPT !.prevEnd = Stage(pc)]
          /\ net' = NoResponse
          /\ UNCHANGED fs
       \/ \E status \in {200, 404, 500} :
            /\ fs' = IF creates_file(status)
                     THEN [fs EXCEPT !.tmpFile = [exists |-> TRUE, data |-> <<>>]]
                     ELSE fs
            /\ IF ~is_success(status)
               THEN /\ pc' = on_download_error
                    /\ st' = [st EXCEPT !.failedAt = "download", !.outcome = "fail",
                                        !.prov = "err", !.nGet = @ + 1,
                                        !.steps = Append(@, "download"),
                                        !.getStatus = status,
                                        !.tmpCreated = creates_file(status)]
                    /\ hist' = [hist EXCEPT !.prevEnd = Stage(pc)]
                    /\ net' = NoResponse
               ELSE \E body \in Artifacts :
                    /\ net' = [status |-> status, body |-> body]
                    /\ st' = [st EXCEPT !.nGet = @ + 1, !.steps = Append(@, "download"),
                                        !.getStatus = status,
                                        !.tmpCreated = creates_file(status)]
                    /\ pc' = "dl_chunk"
                    /\ UNCHANGED hist
    /\ UNCHANGED <<platform, run, args>>

\* the flag ignored, one way and the other
after_download_always_verify(skip) == "verify"
after_download_never_verify(skip) == "mk_bin"

\* where download_file's success leads: verify_hash unless skipped
after_download(skip) == IF ~skip THEN "verify" ELSE "mk_bin"

\* while let Some(chunk) = stream.next().await, then file.flush()
download_chunk ==
    /\ pc = "dl_chunk"
    /\ IF Len(fs.tmpFile.data) < Len(net.body)
       THEN \/ /\ fs' = [fs EXCEPT !.tmpFile.data =
                               Append(@, net.body[Len(fs.tmpFile.data) + 1])]
               /\ UNCHANGED <<pc, st, hist, net>>
            \/ /\ Fail("download")
               /\ UNCHANGED fs
       ELSE /\ pc' = after_download(args.skip_verify)
            /\ net' = NoResponse
            /\ UNCHANGED <<fs, st, hist>>
    /\ UNCHANGED <<platform, run, args>>

\* the comparison left out
hash_mismatch_never(hash, expected) == FALSE

\* if hash != expected { bail }
hash_mismatch(hash, expected) == hash # expected

verify_hash ==
    /\ pc = "verify"
    /\ LET hash == Sha256(fs.tmpFile.data)
           expected == get_platform_info(platform).sha256
       IN IF hash_mismatch(hash, expected)
          THEN /\ pc' = "done"
               /\ st' = [st EXCEPT !.failedAt = "verify", !.outcome = "fail",
                                   !.prov = "err", !.nDigest = @ + 1,
                                   !.steps = Append(@, "verify")]
               /\ hist' = [hist EXCEPT !.prevEnd = Stage(pc)]
          ELSE /\ pc' = "mk_bin"
               /\ st' = [st EXCEPT !.verified = TRUE, !.nDigest = @ + 1,
                                   !.steps = Append(@, "verify")]
               /\ UNCHANGED hist
    /\ UNCHANGED <<platform, run, args, fs, net>>

\* fs::create_dir_all(&bin_dir)
create_bin_dir ==
    /\ pc = "mk_bin"
    /\ fs' = [fs EXCEPT !.binDir = TRUE]
    /\ st' = [st EXCEPT !.before = [bin |-> fs.bin, bundle |-> fs.bundle]]
    /\ pc' = "extract"
    /\ UNCHANGED <<platform, run, args, net, hist>>

ExtractFail ==
    /\ pc' = "done"
    /\ st' = [st EXCEPT !.failedAt = "extract", !.outcome = "fail", !.prov = "err",
                        !.extractRet = "err",
                        !.nExtract = IF pc = "extract" THEN @ + 1 ELSE @,
                        !.steps = IF pc = "extract" THEN Append(@, "extract") ELSE @]
    /\ hist' = [hist EXCEPT !.prevEnd = Stage(pc)]

ExtractCalled == [st EXCEPT !.nExtract = @ + 1, !.steps = Append(@, "extract")]

\* the walk over archive.entries() and the start of entry.unpack(): unpack
\* removes a file that is in the way and creates the destination anew
extract_tar_gz ==
    /\ pc = "extract"
    /\ get_platform_info(platform).archive_type = "TarGz"
    /\ LET info == get_platform_info(platform)
           data == fs.tmpFile.data
           i == FirstMatch([k \in 1..Len(data) |->
                               tar_match(TarEntry(data[k]).path, info.binary_path)])
       IN IF i = 0
          THEN ExtractFail /\ UNCHANGED fs
          ELSE /\ fs' = [fs EXCEPT !.bin =
                              [exists |-> TRUE, complete |-> FALSE, mode |-> CreateMode,
                               entry |-> fs.tmpFile.data[i],
                               verified |-> st.verified]]
               /\ st' = ExtractCalled
               /\ pc' = "tar_copy"
               /\ UNCHANGED hist
    /\ UNCHANGED <<platform, run, args, net>>

\* the rest of entry.unpack(): copy the data, then set the stored mode
tar_unpack ==
    /\ pc = "tar_copy"
    /\ \/ /\ fs' = [fs EXCEPT !.bin.complete = TRUE,
                              !.bin.mode = TarEntry(fs.bin.entry).mode]
          /\ st' = [st EXCEPT !.extractRet = "ok"]
          /\ pc' = "cleanup"
          /\ UNCHANGED hist
       \/ ExtractFail /\ UNCHANGED fs
    /\ UNCHANGED <<platform, run, args, net>>

\* the walk over archive.by_index(i) and std::fs::File::create(&dest_path)
extract_zip ==
    /\ pc = "extract"
    /\ get_platform_info(platform).archive_type = "Zip"
    /\ LET info == get_platform_info(platform)
           data == fs.tmpFile.data
           i == FirstMatch([k \in 1..Len(data) |->
                               zip_match(ZipEntry(data[k]).path, info.binary_path)])
       IN IF i = 0
          THEN ExtractFail /\ UNCHANGED fs
          ELSE /\ fs' = [fs EXCEPT !.bin =
                              [exists |-> TRUE, complete |-> FALSE,
                               mode |-> IF fs.bin.exists THEN fs.bin.mode ELSE CreateMode,
                               entry |-> fs.tmpFile.data[i],
                               verified |-> st.verified]]
               /\ st' = ExtractCalled
               /\ pc' = "zip_copy"
               /\ UNCHANGED hist
    /\ UNCHANGED <<platform, run, args, net>>

\* std::io::copy(&mut file, &mut outfile)
zip_copy ==
    /\ pc = "zip_copy"
    /\ \/ /\ fs' = [fs EXCEPT !.bin.complete = TRUE]
          /\ st' = [st EXCEPT !.extractRet = "ok"]
          /\ pc' = "cleanup"
          /\ UNCHANGED hist
       \/ ExtractFail /\ UNCHANGED fs
    /\ UNCHANGED <<platform, run, args, net>>

\* let _ = fs::remove_dir_all(&temp_expand)
extract_pkg ==
    /\ pc = "extract"
    /\ get_platform_info(platform).archive_type = "Pkg"
    /\ fs' = [fs EXCEPT !.pkgExpand = "absent"]
    /\ st' = ExtractCalled
    /\ pc' = "pkgutil"
    /\ UNCHANGED <<platform, run, args, net, hist>>

\* pkgutil --expand-full <pkg> <temp_expand>: it may not start, it may exit
\* non-zero and leave what it had expanded, or it expands the package
pkgutil_expand ==
    /\ pc = "pkgutil"
    /\ \/ ExtractFail /\ UNCHANGED fs
       \/ /\ ExtractFail
          /\ fs' = [fs EXCEPT !.pkgExpand = "partial"]
       \/ /\ fs' = [fs EXCEPT !.pkgExpand = "expanded"]
          /\ pc' = "pkg_check"
          /\ UNCHANGED <<st, hist>>
    /\ UNCHANGED <<platform, run, args, net>>

\* if !src_app.exists() { bail }, then let _ = fs::remove_dir_all(&dest_app)
remove_dest_app ==
    /\ pc = "pkg_check"
    /\ IF ~PkgHasApp(fs.tmpFile.data)
       THEN ExtractFail /\ UNCHANGED fs
       ELSE /\ fs' = [fs EXCEPT !.bundle = "absent", !.bin = NoBin]
            /\ pc' = "pkg_cp"
            /\ UNCHANGED <<st, hist>>
    /\ UNCHANGED <<platform, run, args, net>>

\* cp -R <src_app> <dest_app>, file by file, and the status check; on
\* success let _ = fs::remove_dir_all(&temp_expand)
copy_bundle ==
    /\ pc = "pkg_cp"
    /\ \/ /\ fs.bundle = "absent"
          /\ fs' = [fs EXCEPT !.bundle = "partial"]
          /\ UNCHANGED <<pc, st, hist>>
       \/ /\ fs.bundle = "partial"
          /\ PkgHasBinary(fs.tmpFile.data)
          /\ ~fs.bin.exists
          /\ fs' = [fs EXCEPT !.bin =
                        [exists |-> TRUE, complete |-> FALSE, mode |-> Oct(7, 5, 5),
                               entry |-> 2,
                         verified |-> st.verified]]
          /\ UNCHANGED <<pc, st, hist>>
       \/ /\ fs.bundle = "partial"
          /\ fs.bin.exists
          /\ ~fs.bin.complete
          /\ fs' = [fs EXCEPT !.bin.complete = TRUE]
          /\ UNCHANGED <<pc, st, hist>>
       \/ /\ fs.bundle = "partial"
          /\ PkgHasBinary(fs.tmpFile.data) => fs.bin.complete
          /\ fs' = [fs EXCEPT !.bundle = "complete"]
          /\ UNCHANGED <<pc, st, hist>>
       \/ /\ fs.bundle # "complete"
          /\ ExtractFail
          /\ UNCHANGED fs
       \/ /\ fs.bundle = "complete"
          /\ fs' = [fs EXCEPT !.pkgExpand = "absent"]
          /\ st' = [st EXCEPT !.extractRet = "ok"]
          /\ pc' = "cleanup"
          /\ UNCHANGED hist
    /\ UNCHANGED <<platform, run, args, net>>

\* let _ = fs::remove_file(&temp_file); let _ = fs::remove_dir(&temp_dir)
cleanup_temp ==
    /\ pc = "cleanup"
    /\ fs' = [fs EXCEPT !.tmpFile = NoFile,
                        !.tmpDir = IF fs.pkgExpand = "absent" THEN FALSE ELSE @]
    /\ pc' = "check_bin"
    /\ UNCHANGED <<platform, run, args, net, st, hist>>

\* a mode without an executable bit
final_mode_no_exec == Oct(6, 4, 4)

\* a mode for the owner alone
final_mode_owner_only == Oct(7, 0, 0)

\* the mode download_and_extract gives the binary on Unix
final_mode == Mode755

\* if !osqueryd_path.exists() { bail }, set_mode(0o755) on Unix, and the
\* return of download_and_extract and of ensure_provisioned
finalize_permissions ==
    /\ pc = "check_bin"
    /\ IF ~fs.bin.exists
       THEN Fail("check_bin") /\ UNCHANGED fs
       ELSE /\ fs' = IF IsUnix(platform) THEN [fs EXCEPT !.bin.mode = final_mode]
                     ELSE fs
            /\ st' = [st EXCEPT !.prov = "ok", !.path = osqueryd_path(platform),
                                !.nChmod = IF IsUnix(platform) THEN @ + 1 ELSE @,
                                !.steps = IF IsUnix(platform) THEN Append(@, "chmod")
                                          ELSE @]
            /\ hist' = Returned(osqueryd_path(platform))
            /\ pc' = "log_dir"
            /\ UNCHANGED net
    /\ UNCHANGED <<platform, run, args>>

----------------------------------------------------------------------------
(* main, after the provisioner *)

\* fs::create_dir_all(&log_path)
create_log_dir ==
    /\ pc = "log_dir"
    /\ fs' = [fs EXCEPT !.logDir = TRUE]
    /\ pc' = "host_id"
    /\ UNCHANGED <<platform, run, args, net, st, hist>>

----------------------------------------------------------------------------
(* HostIdentifier *)

\* impl fmt::Display for HostIdentifier
Display(mode) ==
    CASE mode = "Uuid" -> "uuid"
      [] mode = "Instance" -> "instance"

\* every mode named uuid
as_osquery_arg_uuid(mode) == "uuid"

\* HostIdentifier::as_osquery_arg
as_osquery_arg(mode) ==
    CASE mode = "Uuid" -> "uuid"
      [] mode = "Instance" -> "instance"

\* let (query, field) = match mode
identifier_query(mode) ==
    CASE mode = "Uuid" ->
            [query |-> "SELECT uuid FROM system_info;", field |-> "uuid"]
      [] mode = "Instance" ->
            [query |-> "SELECT instance_id FROM osquery_info;", field |-> "instance_id"]

\* the query run without a database in either mode
query_args_no_db(mode) == <<"-S", "--json", identifier_query(mode).query>>

\* the arguments get_host_identifier gives the binary
query_args(mode) ==
    <<"-S", "--json">>
        \o (IF mode = "Instance" THEN <<"--database_path", "data_dir/osquery.db">>
            ELSE <<>>)
        \o <<identifier_query(mode).query>>

\* what a subprocess of this run is started from and with
Launch(kind, argv, env) ==
    [kind |-> kind, user |-> args.osqueryd_path = "present", bin |-> fs.bin,
     bundle |-> fs.bundle, argv |-> argv, env |-> env]

NoEnv == [name |-> "none", value |-> "none"]

\* Command::new(osqueryd_path) -S --json <query>, its status and its output.
\* The --host-identifier option is drawn here, where main first reads it.
get_host_identifier ==
    /\ pc = "host_id"
    /\ \E mode \in {"Uuid", "Instance"} :
         LET l == Launch("query", query_args(mode), NoEnv)
         IN /\ args' = [args EXCEPT !.host_identifier = mode]
            /\ \/ /\ st' = [st EXCEPT !.launched = @ \cup {l}, !.hostId = "host-1"]
                  /\ pc' = "enroll"
                  /\ UNCHANGED <<net, hist>>
               \/ /\ pc' = "done"
                  /\ st' = [st EXCEPT !.launched = @ \cup {l},
                                      !.failedAt = "host_id", !.outcome = "fail"]
                  /\ hist' = [hist EXCEPT !.prevEnd = Stage(pc)]
                  /\ UNCHANGED net
    /\ UNCHANGED <<platform, run, fs>>

----------------------------------------------------------------------------
(* Enrollment *)

ENROLL_SECRET_ENV == "OSQUERY_ENROLL_SECRET"

\* Bodies a server can answer with, as token sequences: a JSON object is
\* "{" key value ... "}".
EnrollBodies ==
    {<<"{", "enroll_secret", "abc123", "}">>,
     <<"{", "other", "x", "enroll_secret", "def456", "}">>,
     <<"{", "error", "invalid token", "}">>,
     <<"invalid token">>}

\* response.json::<EnrollResponse>(): the value of the enroll_secret field
\* of a JSON object, or a failure
parse_enroll_response(body) ==
    IF Len(body) >= 2 /\ body[1] = "{" /\ body[Len(body)] = "}"
       /\ Len(body) % 2 = 0
       /\ \E k \in 1..((Len(body) - 2) \div 2) : body[2 * k] = "enroll_secret"
    THEN [ok |-> TRUE,
          enroll_secret |->
              body[2 * (CHOOSE k \in 1..((Len(body) - 2) \div 2) :
                            body[2 * k] = "enroll_secret") + 1]]
    ELSE [ok |-> FALSE, enroll_secret |-> "none"]

\* "{}" of a StatusCode: the code and its canonical reason
status_text(status) ==
    CASE status = 200 -> "200 OK"
      [] status = 403 -> "403 Forbidden"

\* the body left out of the message
enroll_error_status_only(status, body) ==
    <<"Enrollment failed (", status_text(status), "): ">>

\* anyhow::bail!("Enrollment failed ({}): {}", status, body)
enroll_error(status, body) ==
    <<"Enrollment failed (", status_text(status), "): ">> \o body

\* any status taken for success
enroll_accepts_any(status) == TRUE

\* if !status.is_success() { bail }
enroll_accepts(status) == is_success(status)

EnrollFail(why, status, body, msg) ==
    /\ pc' = "done"
    /\ st' = [st EXCEPT !.nPost = @ + 1, !.failedAt = why, !.outcome = "fail",
                        !.enrollStatus = status, !.enrollBody = body, !.err = msg]
    /\ hist' = [hist EXCEPT !.prevEnd = Stage(pc)]
    /\ net' = NoResponse

\* let client = if let Some(ca_path) = &args.ca_cert: the default client of a
\* run without --ca-cert, or fs::read / from_pem failing on the file of a run
\* with it
build_client ==
    /\ pc = "enroll"
    /\ \/ /\ pc' = "post"
          /\ UNCHANGED <<net, st, hist>>
       \/ Fail("ca_cert")
    /\ UNCHANGED <<platform, run, args, fs>>

\* client.post(&enroll_url).json(&map).send(), the status check and the
\* parse of the response
enroll ==
    /\ pc = "post"
    /\ \/ EnrollFail("enroll_send", 0, <<>>, <<"Failed to connect to server">>)
       \/ \E status \in {200, 403}, body \in EnrollBodies :
            IF ~enroll_accepts(status)
            THEN \/ EnrollFail("enroll_status", status, body, enroll_error(status, body))
                 \/ EnrollFail("enroll_status", status, <<>>, enroll_error(status, <<>>))
            ELSE LET res == parse_enroll_response(body)
                 IN IF ~res.ok
                    THEN EnrollFail("enroll_parse", status, body,
                                    <<"Failed to parse enrollment response">>)
                    ELSE /\ pc' = "spawn"
                         /\ st' = [st EXCEPT !.nPost = @ + 1, !.enrollStatus = status,
                                             !.enrollBody = body,
                                             !.secret = res.enroll_secret]
                         /\ net' = NoResponse
                         /\ UNCHANGED hist
    /\ UNCHANGED <<platform, run, args, fs>>

----------------------------------------------------------------------------
(* Launcher *)

\* fn get_ca_certs_path; the system bundle is taken to exist where it has a
\* path
get_ca_certs_path(os) ==
    CASE os = "macos" -> "/etc/ssl/cert.pem"
      [] os = "linux" -> "/etc/ssl/certs/ca-certificates.crt"
      [] OTHER -> ""

\* the secret given on the command line
osqueryd_command_secret_arg(mode, os, secret) ==
    [argv |-> <<"--config_plugin", "tls", "--enroll_secret", secret,
                "--host_identifier", as_osquery_arg(mode)>>,
     env |-> NoEnv]

\* let mut cmd = Command::new(&osqueryd_path) and its .arg()/.env() calls,
\* for a run without --ca-cert and --verbose
osqueryd_command(mode, os, secret) ==
    [argv |->
        <<"--config_plugin", "tls", "--tls_hostname", "server">>
        \o (IF get_ca_certs_path(os) # "" THEN <<"--tls_server_certs", get_ca_certs_path(os)>>
            ELSE <<>>)
        \o <<"--enroll_tls_endpoint", "/api/osquery/enroll",
             "--config_tls_endpoint", "/api/osquery/config",
             "--enroll_secret_env", ENROLL_SECRET_ENV,
             "--logger_plugin", "tls",
             "--logger_tls_endpoint", "/api/osquery/log",
             "--disable_distributed", "false",
             "--distributed_plugin", "tls",
             "--distributed_interval", "10",
             "--distributed_tls_max_attempts", "10",
             "--distributed_tls_read_endpoint", "/api/osquery/distributed/read",
             "--distributed_tls_write_endpoint", "/api/osquery/distributed/write",
             "--pidfile", "data_dir/osquery.pid",
             "--logger_path", "data_dir/osquery_logs",
             "--database_path", "data_dir/osquery.db",
             "--host_identifier", as_osquery_arg(mode)>>,
     env |-> [name |-> ENROLL_SECRET_ENV, value |-> secret]]

\* cmd.spawn().context("Failed to start osqueryd")?
spawn_osqueryd ==
    /\ pc = "spawn"
    /\ \/ /\ Fail("spawn")
       \/ LET cmd == osqueryd_command(args.host_identifier, target_os(platform),
                                      st.secret)
            IN /\ st' = [st EXCEPT !.nSpawn = @ + 1,
                                   !.launched = @ \cup
                                       {Launch("osqueryd", cmd.argv, cmd.env)}]
               /\ pc' = "wait"
               /\ UNCHANGED <<net, hist>>
    /\ UNCHANGED <<platform, run, args, fs>>

\* what main returns once wait() has returned the child's status
main_result(code) == "ok"

\* .wait().await?; Ok(())
wait_osqueryd ==
    /\ pc = "wait"
    /\ \/ Fail("wait")
       \/ \E code \in {0, 1} :
            /\ st' = [st EXCEPT !.childExit = code, !.outcome = main_result(code)]
            /\ pc' = "done"
            /\ hist' = [hist EXCEPT !.prevEnd = "none"]
            /\ UNCHANGED net
    /\ UNCHANGED <<platform, run, args, fs>>

\* the process is killed
Crash ==
    /\ pc \notin {"idle", "done"}
    /\ pc' = "done"
    /\ st' = [st EXCEPT !.outcome = "killed"]
    /\ hist' = [hist EXCEPT !.prevEnd = Stage(pc)]
    /\ net' = NoResponse
    /\ UNCHANGED <<platform, run, args, fs>>

Next ==
    \/ StartRun
    \/ main_osqueryd_path
    \/ ensure_provisioned
    \/ download_and_extract
    \/ create_temp_dir
    \/ download_file
    \/ download_chunk
    \/ verify_hash
    \/ create_bin_dir
    \/ extract_tar_gz
    \/ tar_unpack
    \/ extract_zip
    \/ zip_copy
    \/ extract_pkg
    \/ pkgutil_expand
    \/ remove_dest_app
    \/ copy_bundle
    \/ cleanup_temp
    \/ finalize_permissions
    \/ create_log_dir
    \/ get_host_identifier
    \/ build_client
    \/ enroll
    \/ spawn_osqueryd
    \/ wait_osqueryd
    \/ Crash

Spec == Init /\ [][Next]_vars

----------------------------------------------------------------------------
(* Properties *)

Expected == get_platform_info(platform).sha256
Mismatch == fs.tmpFile.exists /\ Sha256(fs.tmpFile.data) # Expected
Provisioning == args.osqueryd_path = "none"
Executable(b) == BitAnd(b.mode, ExecMask) # 0

\* C1: with skip_verify = false, once the run has downloaded a file whose
\* digest differs from the expected one, the run never gets past verify_hash:
\* no extraction function is called, nothing changes at the install path,
\* ensure_provisioned does not return Ok, and once verify_hash has run the
\* run has failed in it.
C1_DigestEnforcement ==
    (Provisioning /\ ~args.skip_verify /\ st.nGet > 0 /\ Mismatch) =>
        /\ pc \in {"dl_chunk", "verify", "done"}
        /\ st.nExtract = 0
        /\ st.extractRet = "none"
        /\ fs.bin = st.checkedBin
        /\ st.prov # "ok"
        /\ st.nDigest > 0 =>
              (pc = "done" /\ st.failedAt = "verify" /\ st.outcome = "fail")

C1_Witness ==
    /\ ~args.skip_verify
    /\ Mismatch
    /\ Len(fs.tmpFile.data) = MaxChunks
    /\ st.nDigest = 1
    /\ st.failedAt = "verify"

\* C2: no subprocess is started from a binary whose bytes did not pass digest
\* verification unless the operator enabled skip_verify.  Stated for the
\* provisioned binary, and counting the bypass as enabled once any run on
\* the data directory enabled it: every subprocess of such a run is started
\* from a completely written binary taken from a verified archive.
C2_NoUnverifiedLaunch ==
    \A l \in st.launched :
        (~l.user /\ ~hist.everSkipped) => (l.bin.verified /\ l.bin.complete)

\* C3: after a run in which ensure_provisioned returned Ok, a later run on the
\* same data directory issues no GET, computes no digest, extracts nothing,
\* and its ensure_provisioned returns the same path from the cache.
AfterEnsure == pc \in {"log_dir", "host_id", "enroll", "post", "spawn", "wait"}

C3_Idempotent ==
    (Provisioning /\ hist.okRun > 0 /\ run > hist.okRun) =>
        /\ st.nGet = 0
        /\ st.nDigest = 0
        /\ st.nExtract = 0
        /\ st.prov # "err"
        /\ pc \notin {"get_platform", "mk_tmp", "dl_send", "dl_chunk", "verify",
                      "mk_bin", "extract", "cleanup", "check_bin"}
        /\ AfterEnsure => (st.prov = "ok" /\ st.cached /\ st.path = hist.okPath)

C3_Witness ==
    /\ Provisioning
    /\ hist.okRun = 1
    /\ run = 2
    /\ pc = "host_id"
    /\ st.cached
    /\ st.path = hist.okPath

\* C4: when the previous run was killed or failed during Downloading or
\* Extracting, the idempotency check of the next run finds the install not
\* provisioned.
C4_HalfInstallNotCached ==
    (pc = "ensure" /\ hist.prevEnd \in {"Downloading", "Extracting"}) =>
        ~is_provisioned(platform, fs)

\* C5: an extraction that fails leaves the install path as it was before the
\* extraction was called.
C5_FailedExtractionLeavesDestination ==
    (pc = "done" /\ st.failedAt = "extract") =>
        (fs.bin = st.before.bin /\ fs.bundle = st.before.bundle)

\* C6: when a run that started a download has ended, in success or in failure,
\* the temporary download file and the temporary expansion directory are gone.
C6_TempRemoved ==
    (pc = "done" /\ st.outcome \in {"ok", "fail"} /\ st.nGet > 0) =>
        (~fs.tmpFile.exists /\ fs.pkgExpand = "absent")

\* C7: on Unix the cached answer is given only for a file that exists and has
\* an executable bit; when the file exists with no executable bit the run is
\* not cached, goes on into download_and_extract, and returns Ok only after
\* one download, one verification (unless skipped), one extraction and the
\* chmod; the mode is never repaired without an extraction.
C7_Strict ==
    IsUnix(platform) =>
        /\ st.cached => (st.checkedBin.exists /\ Executable(st.checkedBin))
        /\ (st.steps # <<>> /\ st.checkedBin.exists /\ ~Executable(st.checkedBin)) =>
              /\ ~st.cached
              /\ AfterEnsure =>
                    /\ st.prov = "ok"
                    /\ st.nGet = 1
                    /\ st.nDigest = (IF args.skip_verify THEN 0 ELSE 1)
                    /\ st.nExtract = 1
                    /\ st.nChmod = 1
        /\ st.nChmod > 0 => (st.nGet = 1 /\ st.nExtract = 1)

C7_Witness ==
    /\ IsUnix(platform)
    /\ st.checkedBin.exists
    /\ ~Executable(st.checkedBin)
    /\ ~st.cached
    /\ st.prov = "ok"
    /\ st.nChmod = 1

StepOrder == <<"resolve", "check", "download", "verify", "extract", "chmod">>
CodeOrder == <<"check", "resolve", "download", "verify", "extract", "chmod">>

Rank(order, step) == CHOOSE i \in 1..Len(order) : order[i] = step

InOrder(steps, order) ==
    \A i, j \in 1..Len(steps) : i < j => Rank(order, steps[i]) < Rank(order, steps[j])

ExpectedSteps ==
    <<"check", "resolve", "download">>
        \o (IF args.skip_verify THEN <<>> ELSE <<"verify">>)
        \o <<"extract">>
        \o (IF IsUnix(platform) THEN <<"chmod">> ELSE <<>>)

C10_ExitStatusIsOutcome ==
    /\ st.nSpawn <= 1
    /\ (pc = "done" /\ st.childExit # -1) =>
          (st.outcome = "ok" <=> st.childExit = 0)

----------------------------------------------------------------------------
(* C11 .. C14: host identifier, enrollment, launch *)

ProvisioningFailures ==
    {"user_path", "platform", "download", "verify", "extract", "check_bin"}

OsquerydLaunches == {l \in st.launched : l.kind = "osqueryd"}

QueryLaunches == {l \in st.launched : l.kind = "query"}

\* the argument that follows flag in argv
ArgValue(argv, flag) ==
    argv[(CHOOSE k \in 1..(Len(argv) - 1) : argv[k] = flag) + 1]

HasArg(argv, a) == \E k \in 1..Len(argv) : argv[k] = a

\* C11: the enrollment POST is sent only with a usable binary path (the
\* provisioner returned Ok, or the operator's path exists) and a host id;
\* osqueryd is spawned only after a 2xx answer with an enroll_secret; a run
\* that failed at one stage has performed none of the later ones.
C11_StageOrder ==
    /\ st.nPost > 0 =>
          /\ st.prov = "ok" \/ (args.osqueryd_path = "present" /\ st.path = "user")
          /\ st.hostId # "none"
          /\ QueryLaunches # {}
    /\ st.nSpawn > 0 =>
          /\ st.nPost > 0
          /\ is_success(st.enrollStatus)
          /\ \E k \in 1..Len(st.enrollBody) : st.enrollBody[k] = "enroll_secret"
          /\ st.secret # "none"
    /\ OsquerydLaunches # {} => st.nSpawn > 0
    /\ st.failedAt \in ProvisioningFailures =>
          st.launched = {} /\ st.nPost = 0 /\ st.nSpawn = 0
    /\ st.failedAt \in {"host_id", "ca_cert"} => st.nPost = 0 /\ st.nSpawn = 0
    /\ st.failedAt \in {"enroll_send", "enroll_status", "enroll_parse"} =>
          st.nSpawn = 0 /\ OsquerydLaunches = {}

\* a provisioned run that went through all three stages
C11_Witness ==
    /\ st.prov = "ok"
    /\ st.nPost = 1
    /\ st.nSpawn = 1
    /\ OsquerydLaunches # {}

C13_ModeConsistent ==
    /\ \A m \in {"Uuid", "Instance"} : Display(m) = as_osquery_arg(m)
    /\ \A l \in OsquerydLaunches :
          \E q \in QueryLaunches, m \in {"Uuid", "Instance"} :
             /\ q.argv[Len(q.argv)] = identifier_query(m).query
             /\ ArgValue(l.argv, "--host_identifier") = Display(m)
    /\ \A q \in QueryLaunches :
          q.argv[Len(q.argv)] = identifier_query(args.host_identifier).query

\* osqueryd launched in instance mode
C13_Witness ==
    \E l \in OsquerydLaunches :
       /\ ArgValue(l.argv, "--host_identifier") = "instance"
       /\ args.host_identifier = "Instance"

\* C14: the secret is in the launched process's OSQUERY_ENROLL_SECRET and in
\* none of its arguments, which name only the variable; no step taken while
\* the run holds a secret changes a file.
C14_SecretInEnvOnly ==
    /\ [](\A l \in OsquerydLaunches :
             /\ l.env = [name |-> "OSQUERY_ENROLL_SECRET", value |-> st.secret]
             /\ ~HasArg(l.argv, st.secret)
             /\ ~HasArg(l.argv, "--enroll_secret")
             /\ ArgValue(l.argv, "--enroll_secret_env") = "OSQUERY_ENROLL_SECRET")
    /\ [][st'.secret # "none" => fs' = fs]_vars

\* osqueryd launched with the second secret in its environment
C14_Witness ==
    \E l \in OsquerydLaunches :
       /\ st.secret = "def456"
       /\ l.env.value = "def456"

----------------------------------------------------------------------------
(* C15 *)

\* The pairs the table of supported platforms lists.
ListedPlatform(p) ==
    \/ target_os(p) = "linux" /\ target_arch(p) \in {"x86_64", "aarch64"}
    \/ target_os(p) = "macos"
    \/ target_os(p) = "windows" /\ target_arch(p) = "x86_64"

ListedArchive(p) ==
    CASE target_os(p) = "linux" -> "TarGz"
      [] target_os(p) = "macos" -> "Pkg"
      [] target_os(p) = "windows" -> "Zip"

\* C15: once download_and_extract has asked for the platform descriptor, the
\* run has one exactly when the target is linux/x86_64, linux/aarch64, macOS
\* or windows/x86_64, with the archive type listed for it, and it has failed
\* as unsupported for every other target.
C15_PlatformTable ==
    /\ (\E k \in 1..Len(st.steps) : st.steps[k] = "resolve") =>
          /\ ListedPlatform(platform)
          /\ get_platform_info(platform).archive_type = ListedArchive(platform)
    /\ st.failedAt = "platform" => ~ListedPlatform(platform)

----------------------------------------------------------------------------
(* C16 *)

\* C16: a run sends at most one download GET and at most one enrollment
\* POST; a failed one ends the run in failure and is not sent again.
C16_SingleShot ==
    /\ st.nGet <= 1
    /\ st.nPost <= 1
    /\ st.failedAt = "download" => (pc = "done" /\ st.outcome = "fail" /\ st.nGet = 1)
    /\ st.failedAt \in {"enroll_send", "enroll_status", "enroll_parse"} =>
          (pc = "done" /\ st.outcome = "fail" /\ st.nPost = 1)

\* a run that downloaded, then had its enrollment refused
C16_Witness ==
    /\ st.nGet = 1
    /\ st.nPost = 1
    /\ st.failedAt = "enroll_status"

----------------------------------------------------------------------------
(* C17 .. C20 *)

\* C17: with --osqueryd-path given the provisioner is never called: no
\* idempotency check, no download, digest, extraction or chmod; when the file
\* named is missing the run fails there, before any subprocess and any
\* request.
C17_OperatorPath ==
    /\ args.osqueryd_path # "none" =>
          /\ st.steps = <<>>
          /\ st.nGet = 0 /\ st.nDigest = 0 /\ st.nExtract = 0 /\ st.nChmod = 0
          /\ st.prov = "none"
          /\ ~st.cached
    /\ args.osqueryd_path = "missing" =>
          /\ pc \in {"main", "done"}
          /\ pc = "done" => st.outcome \in {"fail", "killed"}
          /\ st.outcome = "fail" => st.failedAt = "user_path"
          /\ st.launched = {}
          /\ st.nPost = 0 /\ st.nGet = 0 /\ st.nSpawn = 0

\* a run on the operator's binary that reached the launch
C17_Witness ==
    /\ args.osqueryd_path = "present"
    /\ st.nSpawn = 1
    /\ \E l \in st.launched : l.user

\* C18: ensure_provisioned has returned Ok only with the path osqueryd_path(),
\* the file there and, on Unix, an executable bit on it; when the run
\* extracted it, its mode on Unix is 0o755 whatever mode the archive stored.
C18_OkMeansProvisioned ==
    (Provisioning /\ st.prov = "ok") =>
        /\ st.path = osqueryd_path(platform)
        /\ fs.bin.exists
        /\ IsUnix(platform) => BitAnd(fs.bin.mode, 73) # 0
        /\ is_provisioned(platform, fs)
        /\ (~st.cached /\ IsUnix(platform)) => fs.bin.mode = 493
        /\ ~st.cached => (st.extractRet = "ok" /\ st.nExtract = 1)

\* a fresh install from a member stored without an executable bit
C18_Witness ==
    /\ Provisioning
    /\ st.prov = "ok"
    /\ ~st.cached
    /\ fs.bin.entry = 3
    /\ TarEntry(3).mode = Oct(6, 4, 4)
    /\ get_platform_info(platform).archive_type = "TarGz"

\* C19: a download that failed, on the request, on a non-success status or on
\* a chunk, ends the run before any digest, extraction or chmod; on a
\* non-success status download_file has created no file.
C19_DownloadFailure ==
    /\ st.failedAt = "download" =>
          /\ pc = "done"
          /\ st.prov = "err"
          /\ st.nDigest = 0 /\ st.nExtract = 0 /\ st.nChmod = 0
          /\ st.launched = {}
    /\ (st.nGet > 0 /\ st.getStatus \notin {0} \cup 200..299) =>
          /\ st.failedAt = "download"
          /\ ~st.tmpCreated
    /\ (st.nDigest > 0 \/ st.nExtract > 0) => st.getStatus \in 200..299

\* a 404 answered to the download
C19_Witness ==
    /\ st.getStatus = 404
    /\ st.failedAt = "download"
    /\ pc = "done"

\* the condition of the walk, on the tokens of a path
EndsWithName(path) == Len(path) > 0 /\ path[Len(path)] = "osqueryd"

\* C20: extract_tar_gz unpacks one member, the first whose path ends with
\* osqueryd or is binary_path; the manual page osqueryd.1 is never taken,
\* wherever it stands; an archive without such a member gives the not-found
\* error and the install path is left as it was.
C20_TarSelection ==
    get_platform_info(platform).archive_type = "TarGz" =>
        /\ pc = "tar_copy" =>
              \E i \in 1..Len(fs.tmpFile.data) :
                 /\ fs.bin.entry = fs.tmpFile.data[i]
                 /\ \/ EndsWithName(TarEntry(fs.tmpFile.data[i]).path)
                    \/ TarEntry(fs.tmpFile.data[i]).path =
                          get_platform_info(platform).binary_path
                 /\ \A j \in 1..(i - 1) :
                       /\ ~EndsWithName(TarEntry(fs.tmpFile.data[j]).path)
                       /\ TarEntry(fs.tmpFile.data[j]).path #
                             get_platform_info(platform).binary_path
        /\ fs.bin.exists => fs.bin.entry # 1
        /\ st.nExtract <= 1
        /\ (st.nExtract = 1 /\ fs.tmpFile.exists
            /\ \A i \in 1..Len(fs.tmpFile.data) : fs.tmpFile.data[i] = 1) =>
              /\ pc = "done"
              /\ st.failedAt = "extract"
              /\ fs.bin = st.before.bin

\* the manual page stands first and the member after it is the one unpacked
C20_Witness ==
    /\ get_platform_info(platform).archive_type = "TarGz"
    /\ pc = "tar_copy"
    /\ fs.tmpFile.data = <<1, 3>>
    /\ fs.bin.entry = 3

----------------------------------------------------------------------------
(* C21 *)

\* C21: in Instance mode the identifier query is run with --database_path
\* <data_dir>/osquery.db, the database path osqueryd is then launched with;
\* in Uuid mode the query is run without a --database_path argument.
C21_DatabasePath ==
    \A q \in QueryLaunches :
       /\ args.host_identifier = "Instance" =>
             /\ HasArg(q.argv, "--database_path")
             /\ ArgValue(q.argv, "--database_path") = "data_dir/osquery.db"
             /\ q.argv[Len(q.argv)] = "SELECT instance_id FROM osquery_info;"
             /\ \A l \in OsquerydLaunches :
                   ArgValue(l.argv, "--database_path") =
                      ArgValue(q.argv, "--database_path")
       /\ args.host_identifier = "Uuid" =>
             /\ ~HasArg(q.argv, "--database_path")
             /\ q.argv[Len(q.argv)] = "SELECT uuid FROM system_info;"

\* the instance id was read and osqueryd launched on the same database
C21_Witness ==
    /\ args.host_identifier = "Instance"
    /\ \E q \in QueryLaunches, l \in OsquerydLaunches :
          /\ HasArg(q.argv, "--database_path")
          /\ HasArg(l.argv, "--database_path")

----------------------------------------------------------------------------
(* C22 *)

\* a run of the provisioner on macOS that follows a run ended in extraction
AfterFailedPkgExtraction ==
    /\ target_os(platform) = "macos"
    /\ Provisioning
    /\ run > 1
    /\ hist.prevEnd = "Extracting"

\* What extract_pkg does when the run reaches it: pkgutil is started on a
\* destination that does not exist, and the copy starts with no bundle at
\* the install path.
PkgRemovalsFirst ==
    /\ [](pc = "pkgutil" => fs.pkgExpand = "absent")
    /\ [](pc = "pkg_cp" => (fs.bundle = "absent" => ~fs.bin.exists))
    /\ [][(pc = "pkg_check" /\ pc' = "pkg_cp") =>
             (fs'.bundle = "absent" /\ fs'.bin = NoBin)]_vars

\* C22: in the run that follows a failed installer-package extraction, the
\* expansion utility is started only on a destination that does not exist,
\* and once the provisioner has returned Ok the stale expansion directory is
\* gone and the bundle at the install path is a whole one, copied by this
\* run.
C22_PkgReentrant ==
    AfterFailedPkgExtraction =>
        /\ pc = "pkgutil" => fs.pkgExpand = "absent"
        /\ (st.prov = "ok" /\ pc # "done") =>
              /\ fs.pkgExpand = "absent"
              /\ fs.bundle = "complete"
              /\ fs.bin.complete
              /\ st.nExtract = 1

====
